---- MODULE Spec2Model ----
(***************************************************************************)
(* Model of pdf_to_podcast.py: the response parser (extract_json and the   *)
(* decoding in generate_podcast_content), the context truncation of the    *)
(* summarization stage, the voice mapping and the dispatch / await /       *)
(* download / concatenate loop of generate_audio.                          *)
(*                                                                         *)
(* Text is a sequence of tokens [k, n].  In a generation reply the token   *)
(* FENCE is a fence marker (three backticks), JSON_LABEL the fence label,  *)
(* WS any whitespace character, PROSE any other character, and a token of  *)
(* PayloadTokens is the text of one complete JSON document (DecodeToken    *)
(* gives the value json.loads returns for it).                             *)
(***************************************************************************)
EXTENDS Integers, Sequences, FiniteSets, TLC

VARIABLES
    pc,                 \* position of the run
    content_response,   \* reply of the third generation call
    json_content,       \* result of extract_json
    conversation,       \* the parsed Conversation, or NoValue
    monologue, host_voice, guest_voice,
    speaker_list,       \* list(speakers): one iteration order of the set
    voice_mapping,      \* dict speaker -> voice
    audio_tasks,        \* started synthesis requests, in dispatch order
    remote,             \* remote state of each started request
    finish_order,       \* order in which the remote requests finished
    await_log,          \* indices of audio_tasks whose wait() was called
    audio_result,       \* value returned by the last wait()
    files,              \* content of /tmp/audio-<i>.mp3
    all_audio_segments, \* segment paths collected so far
    file_list,          \* lines of /tmp/file_list.txt, or NoValue
    ffmpeg_runs,        \* manifests ffmpeg was started with
    result,             \* value returned by pdf_to_podcast, or NoValue
    error,              \* exception that ended the run, or NoValue
    dl_log,             \* outcome of each download call
    pdf_metadata,       \* documents of the summarization stage
    all_pdf_text,       \* the context text built by the loop
    untruncated         \* all_pdf_text as it was before the truncation

vars == << pc, content_response, json_content, conversation, monologue,
           host_voice, guest_voice, speaker_list, voice_mapping, audio_tasks,
           remote, finish_order, await_log, audio_result, files,
           all_audio_segments, file_list, ffmpeg_runs, result, error, dl_log,
           pdf_metadata, all_pdf_text, untruncated >>

parserVars == << content_response, json_content, conversation >>

voiceVars == << monologue, host_voice, guest_voice, speaker_list, voice_mapping >>

audioVars == << audio_tasks, remote, finish_order, await_log, audio_result, files,
                all_audio_segments, file_list, ffmpeg_runs, dl_log >>

contextVars == << pdf_metadata, all_pdf_text, untruncated >>

NoValue == "None"

-----------------------------------------------------------------------------
(* Sequences of tokens: the str operations the program uses.               *)

Ch(c) == [k |-> c, n |-> 0]

\* three backticks
FENCE == Ch("fence")

JSON_LABEL == Ch("json")

WS == Ch(" ")

PROSE == Ch("x")

\* the separator of content.split: a fence marker followed by json
JsonFence == << FENCE, JSON_LABEL >>

\* the separator of content.split: a fence marker
AnyFence == << FENCE >>

Drop(s, n) == SubSeq(s, n + 1, Len(s))

Take(s, n) == SubSeq(s, 1, n)

\* does sep occur in s at position i
OccursAt(s, sep, i) ==
    /\ i >= 1
    /\ i + Len(sep) - 1 <= Len(s)
    /\ SubSeq(s, i, i + Len(sep) - 1) = sep

\* sep in s
Contains(s, sep) == \E i \in 1..Len(s) : OccursAt(s, sep, i)

\* s.find(sep) + 1, or 0 when sep does not occur
Find(s, sep) ==
    IF Contains(s, sep)
    THEN CHOOSE i \in 1..Len(s) :
            /\ OccursAt(s, sep, i)
            /\ \A j \in 1..(i - 1) : ~OccursAt(s, sep, j)
    ELSE 0

\* s.split(sep)[0]
SplitFirst(s, sep) ==
    IF Contains(s, sep) THEN Take(s, Find(s, sep) - 1) ELSE s

\* s.split(sep)[1], for s that contains sep
SplitSecond(s, sep) ==
    SplitFirst(Drop(s, Find(s, sep) + Len(sep) - 1), sep)

RECURSIVE LStrip(_)
LStrip(s) ==
    IF s # << >> /\ Head(s) = WS THEN LStrip(Tail(s)) ELSE s

RECURSIVE RStrip(_)
RStrip(s) ==
    IF s # << >> /\ s[Len(s)] = WS THEN RStrip(Take(s, Len(s) - 1)) ELSE s

\* s.strip()
Strip(s) == RStrip(LStrip(s))

\* a plausible slip: the labelled fence is not looked for first
extract_json_anyfence(content) ==
    IF Contains(content, AnyFence)
    THEN Strip(SplitFirst(SplitSecond(content, AnyFence), AnyFence))
    ELSE content

extract_json(content) ==
    IF Contains(content, JsonFence)
    THEN Strip(SplitFirst(SplitSecond(content, JsonFence), AnyFence))
    ELSE IF Contains(content, AnyFence)
    THEN Strip(SplitFirst(SplitSecond(content, AnyFence), AnyFence))
    ELSE content

-----------------------------------------------------------------------------
(* JSON values.  A scalar is [type, val, len]; the value of "lines" is     *)
(* [type, elems], elems being what iterating it yields; an element of it   *)
(* and the document itself are [type, fields], fields being the dict.      *)

\* most lines of a generated script
MaxLines == 3

JStr(v, n) == [type |-> "str", val |-> v, len |-> n]

JNum(v) == [type |-> "num", val |-> v, len |-> 0]

JNull == [type |-> "null", val |-> "null", len |-> 0]

JEmptyList == [type |-> "list", val |-> "[]", len |-> 0]

NoFields == [key \in {} |-> JNull]

JDict(f) == [type |-> "dict", fields |-> f]

JNonDict(t) == [type |-> t, fields |-> NoFields]

JList(items) == [type |-> "list", elems |-> items]

SpeakerNames == << "Adam", "Bella", "Carl" >>

\* the text of line i is a string of i characters
LineText(i) == JStr("text", i)

\* line i (from 1) of a script whose lines cycle through the first nsp names
LineSpeaker(i, nsp) == JStr(SpeakerNames[((i - 1) % nsp) + 1], 4)

GoodLine(i, nsp) ==
    JDict([key \in {"text", "speaker"} |->
             IF key = "text" THEN LineText(i) ELSE LineSpeaker(i, nsp)])

GoodLines(n, nsp) == JList([i \in 1..n |-> GoodLine(i, nsp)])

Doc(title, summary, lines) ==
    JDict([key \in {"title", "summary", "lines"} |->
             IF key = "title" THEN title
             ELSE IF key = "summary" THEN summary ELSE lines])

Without(d, key) == JDict([k \in (DOMAIN d.fields) \ {key} |-> d.fields[k]])

With(d, key, v) == JDict([k \in DOMAIN d.fields |-> IF k = key THEN v ELSE d.fields[k]])

GoodDoc(n, nsp) == Doc(JStr("title", 5), JStr("summary", 7), GoodLines(n, nsp))

\* a document whose first line is ln
DocWithLine(ln) == Doc(JStr("title", 5), JStr("summary", 7), JList(<< ln >>))

Payload(kind, n) == [k |-> kind, n |-> n]

\* well-formed scripts: n lines by two alternating speakers, or by three
GoodPayloadTokens ==
    { Payload("script2", n) : n \in 0..MaxLines } \cup { Payload("script3", MaxLines) }

BadPayloadKinds ==
    { "no_title", "no_summary", "no_lines", "no_text", "no_speaker",
      "title_num", "summary_null", "text_num", "speaker_num", "speaker_list",
      "lines_str", "lines_empty_str", "lines_num", "lines_dict",
      "lines_of_str", "lines_of_num", "top_list", "top_str", "top_nan" }

BadPayloadTokens == { Payload(kind, 0) : kind \in BadPayloadKinds }

PayloadTokens == GoodPayloadTokens \cup BadPayloadTokens

\* the value of json.loads on the document a payload token stands for
DecodeToken(t) ==
    CASE t.k = "script2" -> GoodDoc(t.n, 2)
      [] t.k = "script3" -> GoodDoc(t.n, 3)
      [] t.k = "no_title" -> Without(GoodDoc(2, 2), "title")
      [] t.k = "no_summary" -> Without(GoodDoc(2, 2), "summary")
      [] t.k = "no_lines" -> Without(GoodDoc(2, 2), "lines")
      [] t.k = "no_text" -> DocWithLine(Without(GoodLine(1, 2), "text"))
      [] t.k = "no_speaker" -> DocWithLine(Without(GoodLine(1, 2), "speaker"))
      [] t.k = "title_num" -> With(GoodDoc(2, 2), "title", JNum("5"))
      [] t.k = "summary_null" -> With(GoodDoc(2, 2), "summary", JNull)
      [] t.k = "text_num" -> DocWithLine(With(GoodLine(1, 2), "text", JNum("5")))
      [] t.k = "speaker_num" -> DocWithLine(With(GoodLine(1, 2), "speaker", JNum("5")))
      [] t.k = "speaker_list" -> DocWithLine(With(GoodLine(1, 2), "speaker", JEmptyList))
      [] t.k = "lines_str" ->
            With(GoodDoc(2, 2), "lines", [type |-> "str", elems |-> << JNonDict("str") >>])
      [] t.k = "lines_empty_str" ->
            With(GoodDoc(2, 2), "lines", [type |-> "str", elems |-> << >>])
      [] t.k = "lines_num" ->
            With(GoodDoc(2, 2), "lines", [type |-> "num", elems |-> << >>])
      [] t.k = "lines_dict" ->
            With(GoodDoc(2, 2), "lines", [type |-> "dict", elems |-> << JNonDict("str") >>])
      [] t.k = "lines_of_str" ->
            With(GoodDoc(2, 2), "lines", JList(<< JNonDict("str") >>))
      [] t.k = "lines_of_num" ->
            With(GoodDoc(2, 2), "lines", JList(<< GoodLine(1, 2), JNonDict("num") >>))
      [] t.k = "top_list" -> JNonDict("list")
      [] t.k = "top_str" -> JNonDict("str")
      [] t.k = "top_nan" -> JNonDict("num")

\* json.loads accepts a document with whitespace around it and nothing else;
\* besides the JSON documents it accepts the bare words NaN and Infinity
JsonValid(s) == Len(Strip(s)) = 1 /\ Strip(s)[1] \in PayloadTokens

json_loads(s) == DecodeToken(Strip(s)[1])

\* iter(v) raises TypeError for a value that is not iterable
Iterable(v) == v.type \in {"list", "dict", "str"}

\* the exception of v[key], or NoValue
SubscriptError(v, key) ==
    IF v.type # "dict" THEN "TypeError"
    ELSE IF key \notin DOMAIN v.fields THEN "KeyError"
    ELSE NoValue

\* the exception of DialogueEntry(text=line["text"], speaker=line["speaker"])
EntryError(line) ==
    IF SubscriptError(line, "text") # NoValue THEN SubscriptError(line, "text")
    ELSE SubscriptError(line, "speaker")

\* the exception raised while the Conversation is built from data, or NoValue
StructureError(data) ==
    IF SubscriptError(data, "lines") # NoValue THEN SubscriptError(data, "lines")
    ELSE LET lines == data.fields["lines"] IN
         IF ~Iterable(lines) THEN "TypeError"
         ELSE IF \E i \in 1..Len(lines.elems) : EntryError(lines.elems[i]) # NoValue
         THEN EntryError(lines.elems[
                  CHOOSE i \in 1..Len(lines.elems) :
                      /\ EntryError(lines.elems[i]) # NoValue
                      /\ \A j \in 1..(i - 1) : EntryError(lines.elems[j]) = NoValue])
         ELSE IF SubscriptError(data, "title") # NoValue
         THEN SubscriptError(data, "title")
         ELSE SubscriptError(data, "summary")

DialogueEntry(text, speaker) == [text |-> text, speaker |-> speaker]

\* the Conversation built from a document that decodes
Conversation(data) ==
    LET elems == data.fields["lines"].elems
    IN  [title |-> data.fields["title"],
         summary |-> data.fields["summary"],
         lines |-> [i \in 1..Len(elems) |->
                      DialogueEntry(elems[i].fields["text"], elems[i].fields["speaker"])]]

Raised(e) == [error |-> e, conversation |-> << >>]

Returned(c) == [error |-> NoValue, conversation |-> << c >>]

\* a plausible slip: a reply that cannot be decoded is replaced by a stub script
ParseOutcomeFallback(s) ==
    IF ~JsonValid(s) THEN Returned(Conversation(GoodDoc(1, 1)))
    ELSE IF StructureError(json_loads(s)) # NoValue
    THEN Raised(StructureError(json_loads(s)))
    ELSE Returned(Conversation(json_loads(s)))

\* json.loads and the construction of the Conversation
ParseOutcome(s) ==
    IF ~JsonValid(s) THEN Raised("JSONDecodeError")
    ELSE IF StructureError(json_loads(s)) # NoValue
    THEN Raised(StructureError(json_loads(s)))
    ELSE Returned(Conversation(json_loads(s)))

\* the parsing part of generate_podcast_content
ParseReply(reply) == ParseOutcome(extract_json(reply))

-----------------------------------------------------------------------------
(* The voice mapping of generate_audio.                                    *)

Voices == { "Patient_Man", "Wise_Woman" }

Range(f) == { f[i] : i \in DOMAIN f }

\* set(entry.speaker for entry in conversation.lines)
Speakers(c) == { c.lines[i].speaker : i \in 1..Len(c.lines) }

\* a list or a dict cannot be a member of a set
Hashable(v) == v.type \notin {"list", "dict"}

\* the orders in which list(speakers) may enumerate the set
Enumerations(S) ==
    { f \in [1..Cardinality(S) -> S] : \A i, j \in 1..Cardinality(S) : f[i] = f[j] => i = j }

\* a plausible slip: every speaker after the first gets the guest voice
VoiceAtGuestRest(i, host, guest) == IF i = 0 THEN host ELSE guest

\* the dialogue voice of the speaker at index i (from 0) of speaker_list
VoiceAt(i, host, guest) ==
    IF i = 0 THEN host
    ELSE IF i = 1 THEN guest
    ELSE IF i % 2 = 0 THEN host ELSE guest

IndexIn(list, v) == CHOOSE i \in 1..Len(list) : list[i] = v

\* voice_mapping as generate_audio builds it
VoiceMapping(speakers, list, mono, host, guest) ==
    IF mono THEN [sp \in speakers |-> host]
    ELSE [sp \in Range(list) |-> VoiceAt(IndexIn(list, sp) - 1, host, guest)]

-----------------------------------------------------------------------------
(* The run of pdf_to_podcast from the third generation call on.            *)

\* the replies of the generation capability that carry the text body
RepliesOf(body) ==
    { body,
      << WS >> \o body \o << WS >>,
      << PROSE >> \o body,
      << PROSE, FENCE, JSON_LABEL, WS >> \o body \o << WS, FENCE, PROSE >>,
      << FENCE, JSON_LABEL >> \o body,
      << FENCE, WS >> \o body \o << FENCE >> }

Replies ==
    UNION { RepliesOf(<< t >>) : t \in PayloadTokens }
        \cup RepliesOf(<< >>) \cup RepliesOf(<< PROSE >>)

\* number of script lines of the run
NumLines == IF conversation = << >> THEN 0 ELSE Len(conversation[1].lines)

\* a plausible slip: the last request is not awaited
AfterStepSkipLast(started, awaited, n) ==
    IF started < n THEN "start"
    ELSE IF awaited < n - 1 THEN "wait"
    ELSE "combine"

\* where generate_audio goes on: the start loop, then the wait loop, then ffmpeg
AfterStep(started, awaited, n) ==
    IF started < n THEN "start"
    ELSE IF awaited < n THEN "wait"
    ELSE "combine"

\* a plausible slip: one scratch path for every segment, as for /tmp/result.md
SegmentPathShared(i) == 0

\* /tmp/audio-<i>.mp3
SegmentPath(i) == i

\* a plausible slip: the task that finished first is awaited first
AwaitIndexFinished(log, rem) ==
    IF \E i \in 1..Len(rem) : rem[i] # "running" /\ i \notin Range(log)
    THEN CHOOSE i \in 1..Len(rem) :
            /\ rem[i] # "running" /\ i \notin Range(log)
            /\ \A j \in 1..Len(rem) : (rem[j] # "running" /\ j \notin Range(log)) => j <= i
    ELSE Len(log) + 1

\* the position in audio_tasks of the task the wait loop waits for next
AwaitIndex(log, rem) == Len(log) + 1

\* a plausible slip: subprocess.run without check=True
CheckFailsNever(exit) == FALSE

\* subprocess.run(..., check=True) raises CalledProcessError
CheckFails(exit) == exit # 0

\* requests.get raises on a connection failure, not on an error status
DownloadRaises(outcome) == outcome = "raised"

WriteFile(fs, path, content) ==
    [q \in (DOMAIN fs) \cup {path} |-> IF q = path THEN content ELSE fs[q]]

Fail(e) ==
    /\ pc' = "failed"
    /\ error' = e
    /\ result' = NoValue

Init ==
    /\ pc = "content"
    /\ content_response = << >>
    /\ json_content = << >>
    /\ conversation = << >>
    /\ monologue \in BOOLEAN
    /\ host_voice \in Voices
    /\ guest_voice \in Voices
    /\ speaker_list = << >>
    /\ voice_mapping = << >>
    /\ audio_tasks = << >>
    /\ remote = << >>
    /\ finish_order = << >>
    /\ await_log = << >>
    /\ audio_result = 0
    /\ files = << >>
    /\ all_audio_segments = << >>
    /\ file_list = << >>
    /\ ffmpeg_runs = << >>
    /\ result = NoValue
    /\ error = NoValue
    /\ dl_log = << >>
    /\ pdf_metadata = << >>
    /\ all_pdf_text = << >>
    /\ untruncated = << >>

\* lines 216-234: the reply of the third call is extracted and decoded
GeneratePodcastContent ==
    /\ pc = "content"
    /\ \E reply \in Replies :
          /\ content_response' = reply
          /\ json_content' = extract_json(reply)
          /\ conversation' = ParseReply(reply).conversation
          /\ IF ParseReply(reply).error # NoValue
             THEN Fail(ParseReply(reply).error)
             ELSE pc' = "voices" /\ UNCHANGED << error, result >>
    /\ UNCHANGED << voiceVars, audioVars, contextVars >>

\* lines 252-272
BuildVoiceMapping ==
    /\ pc = "voices"
    /\ LET speakers == Speakers(conversation[1]) IN
       IF \E sp \in speakers : ~Hashable(sp)
       THEN /\ Fail("TypeError")
            /\ UNCHANGED << speaker_list, voice_mapping >>
       ELSE /\ \E list \in Enumerations(speakers) :
                  /\ speaker_list' = IF monologue THEN << >> ELSE list
                  /\ voice_mapping' =
                        VoiceMapping(speakers, list, monologue, host_voice, guest_voice)
            /\ pc' = AfterStep(0, 0, NumLines)
            /\ UNCHANGED << error, result >>
    /\ UNCHANGED << parserVars, monologue, host_voice, guest_voice, audioVars, contextVars >>

\* lines 278-290: one iteration of the loop that starts the requests
StartTask ==
    /\ pc = "start"
    /\ LET i == Len(audio_tasks) + 1
           entry == conversation[1].lines[i]
       IN  \E outcome \in {"started", "raised"} :
              IF outcome = "raised"
              THEN /\ Fail("ModelError")
                   /\ UNCHANGED << audio_tasks, remote >>
              ELSE /\ audio_tasks' = Append(audio_tasks,
                          [line |-> i, text |-> entry.text,
                           voice_id |-> voice_mapping[entry.speaker]])
                   /\ remote' = Append(remote, "running")
                   /\ pc' = AfterStep(i, Len(await_log), NumLines)
                   /\ UNCHANGED << error, result >>
    /\ UNCHANGED << parserVars, voiceVars, finish_order, await_log, audio_result, files,
                    all_audio_segments, file_list, ffmpeg_runs, dl_log, contextVars >>

\* the synthesis capability finishes a request, in any order
RemoteFinish ==
    /\ pc \in {"start", "wait", "download"}
    /\ \E i \in 1..Len(remote) : \E outcome \in {"succeeded", "failed"} :
          /\ remote[i] = "running"
          /\ remote' = [remote EXCEPT ![i] = outcome]
          /\ finish_order' = Append(finish_order, i)
    /\ UNCHANGED << pc, parserVars, voiceVars, audio_tasks, await_log, audio_result, files,
                    all_audio_segments, file_list, ffmpeg_runs, result, error, dl_log,
                    contextVars >>

\* line 293: audio_task.wait() returns once the request has finished
WaitTask ==
    /\ pc = "wait"
    /\ LET i == AwaitIndex(await_log, remote) IN
          /\ remote[i] # "running"
          /\ await_log' = Append(await_log, i)
          /\ IF remote[i] = "failed"
             THEN Fail("ModelError") /\ UNCHANGED audio_result
             ELSE /\ audio_result' = i
                  /\ pc' = "download"
                  /\ UNCHANGED << error, result >>
    /\ UNCHANGED << parserVars, voiceVars, audio_tasks, remote, finish_order, files,
                    all_audio_segments, file_list, ffmpeg_runs, dl_log, contextVars >>

\* lines 296-298 and 336-338: the result is written to the indexed segment file
DownloadSegment ==
    /\ pc = "download"
    /\ LET i == Len(all_audio_segments) IN
       \E outcome \in {"ok", "http_error", "raised"} :
          /\ dl_log' = Append(dl_log, outcome)
          /\ IF DownloadRaises(outcome)
             THEN /\ Fail("ConnectionError")
                  /\ UNCHANGED << files, all_audio_segments >>
             ELSE /\ files' = WriteFile(files, SegmentPath(i),
                                 [kind |-> IF outcome = "ok" THEN "audio" ELSE "error_body",
                                  task |-> audio_result])
                  /\ all_audio_segments' = Append(all_audio_segments, SegmentPath(i))
                  /\ pc' = AfterStep(Len(audio_tasks), Len(await_log), NumLines)
                  /\ UNCHANGED << error, result >>
    /\ UNCHANGED << parserVars, voiceVars, audio_tasks, remote, finish_order, await_log,
                    audio_result, file_list, ffmpeg_runs, contextVars >>

\* lines 300-306 and 309-333: the manifest is written, ffmpeg runs, the path is returned
CombineAudioFiles ==
    /\ pc = "combine"
    /\ file_list' = all_audio_segments
    /\ \E exit \in {0, 1} :
          /\ ffmpeg_runs' = Append(ffmpeg_runs,
                [manifest |-> all_audio_segments,
                 inputs |-> [j \in 1..Len(all_audio_segments) |-> files[all_audio_segments[j]]],
                 exit |-> exit])
          /\ IF CheckFails(exit)
             THEN Fail("CalledProcessError")
             ELSE /\ pc' = "returned"
                  /\ result' = "podcast.mp3"
                  /\ UNCHANGED error
    /\ UNCHANGED << parserVars, voiceVars, audio_tasks, remote, finish_order, await_log,
                    audio_result, files, all_audio_segments, dl_log, contextVars >>

Next ==
    \/ GeneratePodcastContent
    \/ BuildVoiceMapping
    \/ StartTask
    \/ RemoteFinish
    \/ WaitTask
    \/ DownloadSegment
    \/ CombineAudioFiles

Spec == Init /\ [][Next]_vars

-----------------------------------------------------------------------------
(* Properties of the run (specification Spec).                             *)

Lines == conversation[1].lines

AllDownloadsOk == \A i \in 1..Len(dl_log) : dl_log[i] = "ok"

\* the remote requests did not finish in the order they were started
FinishedOutOfOrder ==
    \E i, j \in 1..Len(finish_order) : i < j /\ finish_order[i] > finish_order[j]

\* C1: in a run without failure ffmpeg is given a manifest of exactly N
\* segments whose k-th entry holds the downloaded audio of the request that
\* was started for script line k, with that line's text and speaker's voice,
\* whatever order the remote requests finished in.
C1_ManifestInScriptOrder ==
    (pc = "returned" /\ AllDownloadsOk) =>
        /\ Len(ffmpeg_runs) = 1
        /\ Len(ffmpeg_runs[1].manifest) = Len(Lines)
        /\ file_list = ffmpeg_runs[1].manifest
        /\ \A k \in 1..Len(Lines) :
              LET seg == ffmpeg_runs[1].inputs[k] IN
                 /\ seg.kind = "audio"
                 /\ audio_tasks[seg.task].line = k
                 /\ audio_tasks[seg.task].text = Lines[k].text
                 /\ audio_tasks[seg.task].voice_id = voice_mapping[Lines[k].speaker]

C1_Witness ==
    /\ pc = "returned"
    /\ AllDownloadsOk
    /\ Len(Lines) >= 3
    /\ \A k \in 1..(Len(Lines) - 1) : Lines[k].speaker # Lines[k + 1].speaker
    /\ finish_order[1] = Len(Lines)
    /\ Len(ffmpeg_runs[1].manifest) = Len(Lines)

\* the reply of the third call has been received
ReplyReceived == pc # "content"

\* the text is a JSON document, with or without whitespace around it
ValidJson(s) == JsonValid(s) /\ Strip(s)[1].k # "top_nan"

WellTyped(data) ==
    /\ data.type = "dict"
    /\ {"title", "summary", "lines"} \subseteq DOMAIN data.fields
    /\ data.fields["title"].type = "str"
    /\ data.fields["summary"].type = "str"
    /\ data.fields["lines"].type = "list"
    /\ \A i \in 1..Len(data.fields["lines"].elems) :
          LET ln == data.fields["lines"].elems[i] IN
             /\ ln.type = "dict"
             /\ {"text", "speaker"} \subseteq DOMAIN ln.fields
             /\ ln.fields["text"].type = "str"
             /\ ln.fields["speaker"].type = "str"

DecodeFailure == ~ValidJson(json_content) \/ ~WellTyped(json_loads(json_content))

\* C3: a payload that is malformed, lacks a required key or has a value of
\* the wrong type yields no Script and ends the run.
C3_AnyDecodeFailureFatal ==
    (ReplyReceived /\ DecodeFailure) => (conversation = << >> /\ pc = "failed")

SynthesisFailed == \E i \in 1..Len(remote) : remote[i] = "failed"

DownloadFailed == \E i \in 1..Len(dl_log) : dl_log[i] # "ok"

\* C4: when a synthesis request or the download of a segment has failed,
\* ffmpeg is never started with the segments of the run and nothing is returned.
C4_FailedSegmentAborts ==
    (SynthesisFailed \/ DownloadFailed) => (ffmpeg_runs = << >> /\ result = NoValue)

\* C5: when ffmpeg exits with a nonzero status the run fails and
\* pdf_to_podcast returns no audio path.
C5_FfmpegFailureFatal ==
    \A r \in 1..Len(ffmpeg_runs) :
        ffmpeg_runs[r].exit # 0 =>
            (pc = "failed" /\ error = "CalledProcessError" /\ result = NoValue)

C5_Witness ==
    /\ pc = "failed"
    /\ Len(ffmpeg_runs) = 1
    /\ ffmpeg_runs[1].exit = 1
    /\ Len(ffmpeg_runs[1].manifest) >= 2
    /\ AllDownloadsOk

\* C9: one request per script line is started, in script order; no result
\* is awaited before all N requests are started; results are awaited and
\* downloaded in index order, request i before request i+1, whatever order
\* the remote requests finish in.
C9_StartAllThenJoinInOrder ==
    /\ Len(audio_tasks) <= NumLines
    /\ \A k \in 1..Len(audio_tasks) : audio_tasks[k].line = k
    /\ (await_log # << >> => Len(audio_tasks) = NumLines)
    /\ \A k \in 1..Len(await_log) : await_log[k] = k
    /\ Len(all_audio_segments) <= Len(await_log)
    /\ Len(await_log) <= Len(all_audio_segments) + 1
    /\ \A k \in 1..Len(all_audio_segments) : files[all_audio_segments[k]].task = k
    /\ (pc \in {"combine", "returned"} =>
           Len(audio_tasks) = NumLines /\ Len(all_audio_segments) = NumLines)

C9_Witness ==
    /\ pc = "wait"
    /\ NumLines >= 3
    /\ Len(audio_tasks) = NumLines
    /\ await_log = << 1, 2 >>
    /\ Len(all_audio_segments) = 2
    /\ finish_order[1] = 2
    /\ FinishedOutOfOrder

AllStarted == NumLines > 0 /\ Len(audio_tasks) = NumLines

Ended == pc \in {"failed", "returned"}

\* C10 as stated: generate_audio never ends while a started request has not
\* been awaited.
C10_NeverEndsUnawaited ==
    (Ended /\ AllStarted) => Len(await_log) = NumLines

\* C10 amended: once all N requests are started, generate_audio reaches
\* ffmpeg or returns only after every request was awaited; it ends with
\* requests never awaited only when the wait or the download of an earlier
\* request raised, which ends the run at once.
C10_EndsUnawaitedOnlyOnFailure ==
    /\ AllStarted /\ (pc \in {"combine", "returned"} \/ ffmpeg_runs # << >>) =>
          Len(await_log) = NumLines
    /\ (Ended /\ AllStarted /\ Len(await_log) < NumLines) =>
          /\ pc = "failed"
          /\ await_log # << >>
          /\ \/ error = "ModelError" /\ remote[Len(await_log)] = "failed"
             \/ error = "ConnectionError" /\ dl_log[Len(dl_log)] = "raised"

C10_Witness ==
    /\ pc = "failed"
    /\ NumLines >= 2
    /\ Len(audio_tasks) = NumLines
    /\ await_log = << 1 >>
    /\ remote[1] = "failed"
    /\ remote[2] = "running"

-----------------------------------------------------------------------------
(* The voice mapping on its own (specification SpecVoice).                 *)

\* most lines of a script whose voice mapping is built
MaxVoiceLines == 4

VoiceSpeakers == { JStr("Adam", 4), JStr("Bella", 5), JStr("Carl", 4), JStr("Dana", 4) }

ScriptOf(spk) ==
    [title |-> JStr("title", 5),
     summary |-> JStr("summary", 7),
     lines |-> [i \in 1..Len(spk) |-> DialogueEntry(LineText(i), spk[i])]]

VoiceScripts ==
    UNION { { ScriptOf(spk) : spk \in [1..n -> VoiceSpeakers] } : n \in 0..MaxVoiceLines }

InitVoice ==
    /\ pc = "voices"
    /\ content_response = << >>
    /\ json_content = << >>
    /\ \E c \in VoiceScripts : conversation = << c >>
    /\ monologue \in BOOLEAN
    /\ host_voice \in Voices
    /\ guest_voice \in Voices
    /\ speaker_list = << >>
    /\ voice_mapping = << >>
    /\ audio_tasks = << >>
    /\ remote = << >>
    /\ finish_order = << >>
    /\ await_log = << >>
    /\ audio_result = 0
    /\ files = << >>
    /\ all_audio_segments = << >>
    /\ file_list = << >>
    /\ ffmpeg_runs = << >>
    /\ result = NoValue
    /\ error = NoValue
    /\ dl_log = << >>
    /\ pdf_metadata = << >>
    /\ all_pdf_text = << >>
    /\ untruncated = << >>

NextVoice == BuildVoiceMapping

SpecVoice == InitVoice /\ [][NextVoice]_vars

MappingBuilt == pc \in {"start", "combine"}

\* C7: the keys of the voice mapping are exactly the distinct speakers of the
\* script; in monologue mode every speaker has host_voice; in dialogue mode,
\* for whichever order the speakers are enumerated in, index 0 has
\* host_voice, index 1 guest_voice, a later even index host_voice and a
\* later odd index guest_voice; two speakers give exactly two keys, one with
\* host_voice and one with guest_voice.
C7_VoiceAssignment ==
    MappingBuilt =>
        /\ DOMAIN voice_mapping = { Lines[i].speaker : i \in 1..Len(Lines) }
        /\ monologue => \A sp \in DOMAIN voice_mapping : voice_mapping[sp] = host_voice
        /\ ~monologue =>
              /\ Range(speaker_list) = DOMAIN voice_mapping
              /\ Len(speaker_list) = Cardinality(DOMAIN voice_mapping)
              /\ \A i \in 1..Len(speaker_list) :
                    voice_mapping[speaker_list[i]] =
                        IF (i - 1) % 2 = 0 THEN host_voice ELSE guest_voice
              /\ Cardinality(DOMAIN voice_mapping) = 2 =>
                    \E a, b \in DOMAIN voice_mapping :
                        /\ a # b
                        /\ DOMAIN voice_mapping = {a, b}
                        /\ voice_mapping[a] = host_voice
                        /\ voice_mapping[b] = guest_voice

C7_Witness ==
    /\ MappingBuilt
    /\ ~monologue
    /\ host_voice # guest_voice
    /\ Len(speaker_list) = 4
    /\ speaker_list[1] # Lines[1].speaker
    /\ voice_mapping[speaker_list[3]] = host_voice
    /\ voice_mapping[speaker_list[4]] = guest_voice

-----------------------------------------------------------------------------
(* extract_json on its own (specification SpecExtract).                    *)

\* most tokens of a reply given to extract_json
MaxReplyLen == 7

ReplyTokens == { FENCE, JSON_LABEL, WS, PROSE }

InitExtract ==
    /\ pc = "extract"
    /\ content_response \in UNION { [1..n -> ReplyTokens] : n \in 0..MaxReplyLen }
    /\ json_content = << >>
    /\ conversation = << >>
    /\ monologue = FALSE
    /\ host_voice = "Patient_Man"
    /\ guest_voice = "Wise_Woman"
    /\ speaker_list = << >>
    /\ voice_mapping = << >>
    /\ audio_tasks = << >>
    /\ remote = << >>
    /\ finish_order = << >>
    /\ await_log = << >>
    /\ audio_result = 0
    /\ files = << >>
    /\ all_audio_segments = << >>
    /\ file_list = << >>
    /\ ffmpeg_runs = << >>
    /\ result = NoValue
    /\ error = NoValue
    /\ dl_log = << >>
    /\ pdf_metadata = << >>
    /\ all_pdf_text = << >>
    /\ untruncated = << >>

\* line 221
ExtractJson ==
    /\ pc = "extract"
    /\ json_content' = extract_json(content_response)
    /\ pc' = "extracted"
    /\ UNCHANGED << content_response, conversation, voiceVars, audioVars, result, error,
                    contextVars >>

NextExtract == ExtractJson

SpecExtract == InitExtract /\ [][NextExtract]_vars

\* position of the first json-labelled opening marker of the reply
OpeningAt(p) ==
    /\ OccursAt(content_response, JsonFence, p)
    /\ \A j \in 1..(p - 1) : ~OccursAt(content_response, JsonFence, j)

\* position of the next fence marker after the opening marker at p, or
\* one past the end of the reply when no marker follows
ClosingAt(p, q) ==
    /\ q \in (p + 2)..(Len(content_response) + 1)
    /\ q <= Len(content_response) => content_response[q] = FENCE
    /\ \A j \in (p + 2)..(q - 1) : content_response[j] # FENCE

\* r is t without the whitespace at its two ends
IsStripped(r, t) ==
    \E i, j \in 0..Len(t) :
        /\ i + j <= Len(t)
        /\ r = SubSeq(t, i + 1, Len(t) - j)
        /\ \A m \in 1..i : t[m] = WS
        /\ \A m \in (Len(t) - j + 1)..Len(t) : t[m] = WS
        /\ r # << >> => (r[1] # WS /\ r[Len(r)] # WS)

\* C6 as stated: the result is exactly the text between the first
\* json-labelled opening marker and the next fence marker.
C6_ExactlyFencedContent ==
    pc = "extracted" =>
        \A p, q \in 1..Len(content_response) :
            (OpeningAt(p) /\ ClosingAt(p, q)) =>
                json_content = SubSeq(content_response, p + 2, q - 1)

\* C6 amended: the result is the text between the first json-labelled
\* opening marker and the next fence marker (the end of the reply when no
\* marker follows) without the whitespace at its two ends, whatever
\* precedes the opening marker or follows the closing one.
C6_StrippedFencedContent ==
    pc = "extracted" =>
        \A p \in 1..Len(content_response) : \A q \in 1..(Len(content_response) + 1) :
            (OpeningAt(p) /\ ClosingAt(p, q)) =>
                IsStripped(json_content, SubSeq(content_response, p + 2, q - 1))

C6_Witness ==
    /\ pc = "extracted"
    /\ content_response = << FENCE, FENCE, JSON_LABEL, WS, PROSE, FENCE, PROSE >>
    /\ json_content = << PROSE >>

-----------------------------------------------------------------------------
(* The context of the summarization prompt (specification SpecContext).    *)
(* A string is known by its owner and length; a text is a sequence of      *)
(* chunks [doc, part, from, to]: the characters from+1..to of the string   *)
(* part of document doc (doc 0 for the literals of the program).           *)

\* most documents of a run
MaxDocs == 5

\* pdf.markdown[:5000]
MaxDocChars == 5000

max_context_length == 24000

\* len("\n\n[truncated due to length]\n")
MarkerLen == 28

FilenameLens == {1, 2}

MarkdownLens == {0, 3920, 3921, 6000}

Chunk(doc, part, from, to) == [doc |-> doc, part |-> part, from |-> from, to |-> to]

Literal(part, n) == Chunk(0, part, 0, n)

Marker == Literal("truncated", MarkerLen)

\* chunks that hold no character are not part of a text
NonEmpty(t) == SelectSeq(t, LAMBDA c : c.from < c.to)

RECURSIVE TextLen(_)
TextLen(t) == IF t = << >> THEN 0 ELSE (t[1].to - t[1].from) + TextLen(Tail(t))

\* t[:n]
RECURSIVE Slice(_, _)
Slice(t, n) ==
    IF t = << >> \/ n <= 0 THEN << >>
    ELSE IF t[1].to - t[1].from <= n
    THEN << t[1] >> \o Slice(Tail(t), n - (t[1].to - t[1].from))
    ELSE << [t[1] EXCEPT !.to = t[1].from + n] >>

\* line 134: the f-string of document d
DocumentText(d, pdf) ==
    NonEmpty(<< Literal("open", 12),
                Chunk(d, "filename", 0, pdf.filename),
                Literal("newline", 1) >>
             \o Slice(<< Chunk(d, "markdown", 0, pdf.markdown) >>, MaxDocChars)
             \o << Literal("close", 2) >>)

\* lines 132-134: the text after the documents 1..n were appended
RECURSIVE Concatenated(_, _)
Concatenated(pdfs, n) ==
    IF n = 0 THEN << >>
    ELSE Concatenated(pdfs, n - 1) \o DocumentText(n, pdfs[n])

\* a plausible slip: a text of exactly the limit is marked as truncated too
TruncateAtLimit(t) ==
    IF TextLen(t) >= max_context_length
    THEN Slice(t, max_context_length) \o << Marker >>
    ELSE t

\* lines 137-141
Truncate(t) ==
    IF TextLen(t) > max_context_length
    THEN Slice(t, max_context_length) \o << Marker >>
    ELSE t

Documents == [filename : FilenameLens, markdown : MarkdownLens]

InitContext ==
    /\ pc = "context"
    /\ content_response = << >>
    /\ json_content = << >>
    /\ conversation = << >>
    /\ monologue = FALSE
    /\ host_voice = "Patient_Man"
    /\ guest_voice = "Wise_Woman"
    /\ speaker_list = << >>
    /\ voice_mapping = << >>
    /\ audio_tasks = << >>
    /\ remote = << >>
    /\ finish_order = << >>
    /\ await_log = << >>
    /\ audio_result = 0
    /\ files = << >>
    /\ all_audio_segments = << >>
    /\ file_list = << >>
    /\ ffmpeg_runs = << >>
    /\ result = NoValue
    /\ error = NoValue
    /\ dl_log = << >>
    /\ pdf_metadata \in UNION { [1..n -> Documents] : n \in 0..MaxDocs }
    /\ all_pdf_text = << >>
    /\ untruncated = << >>

\* lines 131-148: the text embedded in the summarization prompt
BuildContext ==
    /\ pc = "context"
    /\ untruncated' = Concatenated(pdf_metadata, Len(pdf_metadata))
    /\ all_pdf_text' = Truncate(Concatenated(pdf_metadata, Len(pdf_metadata)))
    /\ pc' = "summarize"
    /\ UNCHANGED << parserVars, voiceVars, audioVars, result, error, pdf_metadata >>

NextContext == BuildContext

SpecContext == InitContext /\ [][NextContext]_vars

\* a is the text of the first characters of b
IsPrefix(a, b) ==
    /\ Len(a) <= Len(b)
    /\ \A i \in 1..(Len(a) - 1) : a[i] = b[i]
    /\ a # << >> =>
          LET x == a[Len(a)]
              y == b[Len(a)]
          IN  /\ x.doc = y.doc /\ x.part = y.part /\ x.from = y.from
              /\ x.from < x.to /\ x.to <= y.to

\* the chunks of t taken from the markdown of document d
MarkdownChunks(t, d) == { i \in 1..Len(t) : t[i].part = "markdown" /\ t[i].doc = d }

\* C8: a document contributes at most the first 5000 characters of its text;
\* a concatenated text of more than 24000 characters is embedded as its first
\* 24000 characters followed by the truncation marker and nothing else; a
\* text of at most 24000 characters is embedded unchanged, without marker.
C8_ContextTruncation ==
    pc = "summarize" =>
        /\ \A d \in 1..Len(pdf_metadata) :
              /\ Cardinality(MarkdownChunks(untruncated, d)) <= 1
              /\ \A i \in MarkdownChunks(untruncated, d) :
                    /\ untruncated[i].from = 0
                    /\ untruncated[i].to <= 5000
                    /\ untruncated[i].to <= pdf_metadata[d].markdown
                    /\ untruncated[i].to < 5000 => untruncated[i].to = pdf_metadata[d].markdown
        /\ TextLen(untruncated) > 24000 =>
              /\ all_pdf_text[Len(all_pdf_text)] = Marker
              /\ IsPrefix(SubSeq(all_pdf_text, 1, Len(all_pdf_text) - 1), untruncated)
              /\ TextLen(SubSeq(all_pdf_text, 1, Len(all_pdf_text) - 1)) = 24000
              /\ TextLen(all_pdf_text) = 24000 + MarkerLen
        /\ TextLen(untruncated) <= 24000 =>
              /\ all_pdf_text = untruncated
              /\ \A i \in 1..Len(all_pdf_text) : all_pdf_text[i] # Marker

C8_Witness ==
    /\ pc = "summarize"
    /\ TextLen(untruncated) > 24000
    /\ Len(all_pdf_text) >= 2
    /\ all_pdf_text[Len(all_pdf_text)] = Marker
    /\ all_pdf_text[Len(all_pdf_text) - 1].part = "markdown"
    /\ all_pdf_text[Len(all_pdf_text) - 1].to < 5000
    /\ \E d \in 1..Len(pdf_metadata) : pdf_metadata[d].markdown > 5000

\* the text is exactly as long as the limit and is left alone
C8_AtLimit ==
    /\ pc = "summarize"
    /\ TextLen(untruncated) = 24000
    /\ all_pdf_text = untruncated

====
